---- MODULE Spec2Model ----
(***************************************************************************)
(* A model of the mock-interview wizard of src/sprint_1/interview.py.      *)
(*                                                                         *)
(* The program is a Streamlit script: every user interaction and every     *)
(* st.rerun() executes the script once, top to bottom, against the         *)
(* session record st.session_state.  One action of the model is one run    *)
(* of the script.  The four functions that talk to the completion service  *)
(* are operators that take the service's reply as an argument, so that    *)
(* the reply is an input the actions draw from a set.                      *)
(*                                                                         *)
(* Text is a sequence of one-character strings, so that str.strip() and    *)
(* str.upper() are computed.  Values that Python types dynamically (a      *)
(* decoded JSON document, a return value that may be None) are tagged      *)
(* records [t |-> <type>, v |-> <payload>].  Python's indices are 0-based, *)
(* TLA+ sequences are 1-based: element i of a Python list l is l[i + 1].   *)
(***************************************************************************)
EXTENDS Integers, Sequences, FiniteSets, TLC

\* ------------------------------------------------------------------------
\* Bounds of the model
\* ------------------------------------------------------------------------

\* The longest list of questions the service returns in the wizard.
MaxReplyLen == 3

\* The longest list of questions the service returns when the Question
\* Generator is exercised on its own.
MaxGenReplyLen == 11

\* How many times the Answer Evaluator may be invoked in one stay in phase
\* finished before the model stops re-running it.
MaxEvalCalls == 2

\* ------------------------------------------------------------------------
\* Program constants
\* ------------------------------------------------------------------------

\* question_options = list(range(3, 11))
MinQuestions == 3
MaxQuestions == 10

\* st.session_state.setdefault('num_questions_selected', 5)
DefaultNumQuestions == 5

\* st.session_state.num_questions_selected = 3   (Start New Interview)
ResetNumQuestions == 3

\* st.text_area(..., max_chars=1000)
AnswerMaxChars == 1000

\* st.text_input(..., max_chars=50)
RoleMaxChars == 50

\* "grade": 1 and "overall_grade": 1 of the synthetic evaluation
NotAnsweredGrade == 1

\* Provide a numerical grade from 1 (Poor) to 10 (Excellent)
MinGrade == 1
MaxGrade == 10

APP_DEVELOPER == <<"A","p","p"," ","D","e","v","e","l","o","p","e","r">>
DATA_ANALYST == <<"D","a","t","a"," ","A","n","a","l","y","s","t">>
BIG_DATA_ENGINEER == <<"B","i","g"," ","D","a","t","a"," ","E","n","g","i","n","e","e","r">>
GENERAL == <<"G","e","n","e","r","a","l">>
OTHER_ROLE == <<"O","t","h","e","r",".",".",".">>

role_options == << APP_DEVELOPER, DATA_ANALYST, BIG_DATA_ENGINEER, GENERAL, OTHER_ROLE >>

complexity_options == << "Easy", "Medium", "Hard" >>

FLAGGED == <<"[","C","o","n","t","e","n","t"," ","F","l","a","g","g","e","d"," ","a","s"," ","U","n","s","a","f","e","]">>
NOT_ANSWERED == <<"N","o","t"," ","a","n","s","w","e","r","e","d">>
NO_ANSWERS == <<"N","o"," ","a","n","s","w","e","r","s"," ","w","e","r","e"," ","p","r","o","v","i","d","e","d"," ","f","o","r"," ","e","v","a","l","u","a","t","i","o","n",".">>
VALID == <<"V","A","L","I","D">>
INVALID == <<"I","N","V","A","L","I","D">>
SAFE == <<"S","A","F","E">>
UNSAFE == <<"U","N","S","A","F","E">>

\* ------------------------------------------------------------------------
\* Python strings
\* ------------------------------------------------------------------------

Whitespace == {" ", "\t", "\n", "\r"}

LOWER == <<"a","b","c","d","e","f","g","h","i","j","k","l","m","n","o","p","q","r","s","t","u","v","w","x","y","z">>
UPPER == <<"A","B","C","D","E","F","G","H","I","J","K","L","M","N","O","P","Q","R","S","T","U","V","W","X","Y","Z">>

RECURSIVE LStrip(_)
LStrip(s) ==
    IF s = <<>> THEN s
    ELSE IF Head(s) \in Whitespace THEN LStrip(Tail(s)) ELSE s

RECURSIVE RStrip(_)
RStrip(s) ==
    IF s = <<>> THEN s
    ELSE IF s[Len(s)] \in Whitespace THEN RStrip(SubSeq(s, 1, Len(s) - 1)) ELSE s

\* str.strip()
Strip(s) == RStrip(LStrip(s))

\* the upper-case letter of every lower-case letter
UpperOf ==
    [c \in { LOWER[i] : i \in 1..Len(LOWER) } |->
        UPPER[CHOOSE i \in 1..Len(LOWER) : LOWER[i] = c]]

UpperChar(c) == IF c \in DOMAIN UpperOf THEN UpperOf[c] ELSE c

\* str.upper() leaving every character as it is
UpperUnchanged(s) == s

\* str.upper()
Upper(s) == [i \in 1..Len(s) |-> UpperChar(s[i])]

\* MaxCharsOf of a widget without a limit
MaxCharsOfUnbounded(s, n) == s

\* a widget's max_chars: the text it returns is never longer
MaxCharsOf(s, n) == IF Len(s) > n THEN SubSeq(s, 1, n) ELSE s

\* IsBlank without the trimming: `a` alone is tested
IsBlankUntrimmed(a) == a = <<>>

\* `a and a.strip()` is false
IsBlank(a) == Strip(a) = <<>>

\* ------------------------------------------------------------------------
\* Python values
\* ------------------------------------------------------------------------

PyNone == [t |-> "None"]
PyBool(b) == [t |-> "bool", v |-> b]
PyInt(n) == [t |-> "int", v |-> n]
PyStr(s) == [t |-> "str", v |-> s]
PyList(s) == [t |-> "list", v |-> s]
PyDict(d) == [t |-> "dict", v |-> d]

\* bool(x) taken for `x is not None`
TruthyUnlessNone(x) == x.t # "None"

\* bool(x)
Truthy(x) ==
    CASE x.t = "None" -> FALSE
      [] x.t = "bool" -> x.v
      [] x.t = "int" -> x.v # 0
      [] x.t = "str" -> x.v # <<>>
      [] x.t = "list" -> x.v # <<>>
      [] x.t = "dict" -> DOMAIN x.v # {}

\* key in d
HasKey(d, key) == key \in DOMAIN d.v

\* isinstance(d[key], type) guarded by `key in d`
HasTyped(d, key, type) == HasKey(d, key) /\ d.v[key].t = type

\* what a function did besides returning: whether it sent a request to the
\* completion service, and the messages it showed in the page
Outcome(ret, called, ui) == [ret |-> ret, called |-> called, ui |-> ui]

\* ------------------------------------------------------------------------
\* Replies of the completion service
\* ------------------------------------------------------------------------

\* client.chat.completions.create raised
Raised == [kind |-> "raise"]

\* a response whose message content is the text s (s = <<>>: no content)
Text(s) == [kind |-> "text", content |-> s]

\* a response whose message content json.loads cannot decode
BadJson == [kind |-> "badjson"]

\* a response whose message content json.loads decodes to data
Json(data) == [kind |-> "json", data |-> data]

\* ------------------------------------------------------------------------
\* The four functions that call the completion service
\* ------------------------------------------------------------------------

\* check_role(role_to_check): the role itself (accepted), "" (rejected) or
\* None (the service failed or its reply is neither token)
check_role(role_to_check, reply) ==
    IF reply.kind # "text"
    THEN Outcome(PyNone, TRUE, <<"error">>)
    ELSE IF reply.content # <<>>
    THEN LET content == Upper(Strip(reply.content))
         IN  IF content = VALID THEN Outcome(PyStr(role_to_check), TRUE, <<>>)
             ELSE IF content = INVALID THEN Outcome(PyStr(<<>>), TRUE, <<>>)
             ELSE Outcome(PyNone, TRUE, <<"error">>)
    ELSE Outcome(PyNone, TRUE, <<"error">>)

\* all(isinstance(q, str) for q in parsed_questions)
AllStrings(l) == \A i \in 1..Len(l) : l[i].t = "str"

\* parsed_questions[:num_questions]
Truncate(l, n) == IF Len(l) > n THEN SubSeq(l, 1, n) ELSE l

\* generate_questions_openai(num_questions, complexity_of_question, role)
generate_questions_openai(num_questions, complexity_of_question, role, reply) ==
    IF reply.kind = "json"
    THEN LET data == reply.data
         IN  IF data.t = "dict" /\ HasTyped(data, "questions", "list")
             THEN LET parsed_questions == data.v["questions"].v
                  IN  IF AllStrings(parsed_questions)
                      THEN Outcome(PyList(Truncate(parsed_questions, num_questions)),
                                   TRUE, <<>>)
                      ELSE Outcome(PyList(<<>>), TRUE, <<"error">>)
             ELSE Outcome(PyList(<<>>), TRUE, <<"error">>)
    ELSE IF reply.kind = "badjson"
    THEN Outcome(PyList(<<>>), TRUE, <<"error">>)
    \* except Exception: prints and falls off the end of the function
    ELSE Outcome(PyNone, TRUE, <<>>)

\* check_answer_safety without the early return for empty input
check_answer_safety_unguarded(answer_text, reply) ==
    IF reply.kind # "text"
    THEN Outcome(PyNone, TRUE, <<"error">>)
    ELSE IF reply.content # <<>>
    THEN LET content == Upper(Strip(reply.content))
         IN  IF content = SAFE THEN Outcome(PyBool(TRUE), TRUE, <<>>)
             ELSE IF content = UNSAFE THEN Outcome(PyBool(FALSE), TRUE, <<>>)
             ELSE Outcome(PyBool(FALSE), TRUE, <<"warning">>)
    ELSE Outcome(PyNone, TRUE, <<"error">>)

\* check_answer_safety(answer_text): True (safe), False (unsafe) or None
check_answer_safety(answer_text, reply) ==
    IF IsBlank(answer_text)
    THEN Outcome(PyBool(TRUE), FALSE, <<>>)
    ELSE IF reply.kind # "text"
    THEN Outcome(PyNone, TRUE, <<"error">>)
    ELSE IF reply.content # <<>>
    THEN LET content == Upper(Strip(reply.content))
         IN  IF content = SAFE THEN Outcome(PyBool(TRUE), TRUE, <<>>)
             ELSE IF content = UNSAFE THEN Outcome(PyBool(FALSE), TRUE, <<>>)
             \* Treat unclear answers as unsafe
             ELSE Outcome(PyBool(FALSE), TRUE, <<"warning">>)
    ELSE Outcome(PyNone, TRUE, <<"error">>)

\* the synthetic evaluation of an interview nobody answered
NotAnsweredEvaluation(n) ==
    PyDict([evaluations |->
                PyList([i \in 1..n |->
                    PyDict([question_index |-> PyInt(i - 1),
                            grade |-> PyInt(NotAnsweredGrade),
                            justification |-> PyStr(NOT_ANSWERED)])]),
            overall_grade |-> PyInt(NotAnsweredGrade),
            overall_justification |-> PyStr(NO_ANSWERS)])

\* any(a and a.strip() for a in answers)
AnyAnswered(answers) == \E i \in 1..Len(answers) : ~IsBlank(answers[i])

\* the item of the 'evaluations' list at Python index i passes the check
ValidItem(item, i) ==
    /\ item.t = "dict"
    /\ HasKey(item, "question_index")
    /\ item.v["question_index"] = PyInt(i)
    /\ HasTyped(item, "grade", "int")
    /\ HasTyped(item, "justification", "str")

\* ValidEvaluation without the comparison of the two lengths
ValidEvaluationAnyLength(evaluation_results, questions) ==
    /\ evaluation_results.t = "dict"
    /\ HasTyped(evaluation_results, "evaluations", "list")
    /\ HasTyped(evaluation_results, "overall_grade", "int")
    /\ HasTyped(evaluation_results, "overall_justification", "str")
    /\ \A i \in 1..Len(evaluation_results.v["evaluations"].v) :
           ValidItem(evaluation_results.v["evaluations"].v[i], i - 1)

\* Validation of the received JSON: no ValueError is raised
ValidEvaluation(evaluation_results, questions) ==
    /\ evaluation_results.t = "dict"
    /\ HasTyped(evaluation_results, "evaluations", "list")
    /\ HasTyped(evaluation_results, "overall_grade", "int")
    /\ HasTyped(evaluation_results, "overall_justification", "str")
    /\ Len(evaluation_results.v["evaluations"].v) = Len(questions)
    /\ \A i \in 1..Len(evaluation_results.v["evaluations"].v) :
           ValidItem(evaluation_results.v["evaluations"].v[i], i - 1)

\* evaluate_answers_openai(questions, answers, num_questions, role);
\* questions is a Python value, answers a list of str
evaluate_answers_openai(questions, answers, num_questions, role, reply) ==
    IF ~Truthy(questions) \/ answers = <<>> \/ Len(questions.v) # Len(answers)
    THEN Outcome(PyNone, FALSE, <<>>)
    ELSE IF ~AnyAnswered(answers)
    THEN Outcome(NotAnsweredEvaluation(Len(questions.v)), FALSE, <<"warning">>)
    ELSE IF reply.kind = "json"
    THEN IF ValidEvaluation(reply.data, questions.v)
         THEN Outcome(reply.data, TRUE, <<>>)
         ELSE Outcome(PyNone, TRUE, <<"error">>)
    ELSE Outcome(PyNone, TRUE, <<"error">>)

\* ------------------------------------------------------------------------
\* Inputs: what the user enters and what the service replies
\* ------------------------------------------------------------------------

MAYBE == <<"M","A","Y","B","E">>

\* question_options = list(range(3, 11))
QuestionOptions == MinQuestions..MaxQuestions

\* the options the user selects in the wizard
SelectedCounts == { MinQuestions, DefaultNumQuestions }
SelectedRoles == { APP_DEVELOPER, OTHER_ROLE }
SelectedComplexities == { "Medium", "Hard" }

\* what the user types into "Enter Custom Role:"
CustomRoleInputs == { <<>>, <<" ","C","h","e","f"," ">> }

\* what the user types into "Your Answer:"
AnswerInputs == { <<>>, <<" ">>, <<"x">> }

\* a text one character longer than the text area takes
LongAnswer == [i \in 1..(AnswerMaxChars + 1) |-> "x"]

\* what the user types into the text area of the question at q_index; the
\* long text is typed into the first question only
EditInputs(q_index) ==
    IF q_index = 0 THEN AnswerInputs \cup { LongAnswer } ELSE AnswerInputs

\* replies to the role check
RoleReplies ==
    { Raised, Text(<<>>), Text(VALID), Text(INVALID),
      Text(<<" ","v","a","l","i","d","\n">>), Text(MAYBE) }

\* replies to an answer safety check
SafetyReplies == { Raised, Text(SAFE), Text(UNSAFE) }

Question == PyStr(<<"Q","?">>)

\* replies to a request for questions, with lists of up to max strings
QuestionReplies(max) ==
    { Raised, BadJson,
      Json(PyList(<<Question>>)),
      Json(PyDict([items |-> PyList(<<Question>>)])),
      Json(PyDict([questions |-> Question])),
      Json(PyDict([questions |-> PyList(<<Question, PyInt(7)>>)])) }
    \cup { Json(PyDict([questions |-> PyList([i \in 1..k |-> Question])])) : k \in 0..max }

Justification == PyStr(<<"o","k">>)

EvalItem(i, g) ==
    PyDict([question_index |-> PyInt(i), grade |-> PyInt(g),
            justification |-> Justification])

\* a reply of the shape the evaluation prompt asks for: n items, item i
\* graded g[i], overall grade o
Evaluation(n, g, o) ==
    PyDict([evaluations |-> PyList([i \in 1..n |-> EvalItem(i - 1, g[i])]),
            overall_grade |-> PyInt(o),
            overall_justification |-> Justification])

\* the same with the list of items replaced
WithItems(e, items) == PyDict([e.v EXCEPT !["evaluations"] = PyList(items)])

\* the same with the item at position p replaced
WithItem(e, p, item) ==
    WithItems(e, [e.v["evaluations"].v EXCEPT ![p] = item])

EvalGrades == { MaxGrade, MaxGrade + 1 }

\* replies with every required key, n items and the right indices
ShapedEvaluations(n) ==
    { Evaluation(n, [i \in 1..n |-> g], g) : g \in EvalGrades }

\* items that fail the check of the item at position p (Python index p - 1)
MisshapedItems(p) ==
    { Justification,
      EvalItem(p, MaxGrade),
      PyDict([grade |-> PyInt(MaxGrade), justification |-> Justification]),
      PyDict([question_index |-> PyInt(p - 1), justification |-> Justification]),
      PyDict([question_index |-> PyInt(p - 1), grade |-> Justification,
              justification |-> Justification]),
      PyDict([question_index |-> PyInt(p - 1), grade |-> PyInt(MaxGrade)]),
      PyDict([question_index |-> PyInt(p - 1), grade |-> PyInt(MaxGrade),
              justification |-> PyNone]) }

\* replies that lack a key, hold a value of the wrong type, or are misaligned
MisshapedEvaluations(n) ==
    LET e == Evaluation(n, [i \in 1..n |-> MaxGrade], MaxGrade)
        items == e.v["evaluations"].v
    IN  { PyList(items),
          PyDict([overall_grade |-> PyInt(MaxGrade),
                  overall_justification |-> Justification]),
          PyDict([e.v EXCEPT !["evaluations"] = Justification]),
          PyDict([evaluations |-> PyList(items),
                  overall_justification |-> Justification]),
          PyDict([e.v EXCEPT !["overall_grade"] = Justification]),
          PyDict([evaluations |-> PyList(items),
                  overall_grade |-> PyInt(MaxGrade)]),
          PyDict([e.v EXCEPT !["overall_justification"] = PyInt(0)]),
          WithItems(e, SubSeq(items, 1, n - 1)),
          WithItems(e, Append(items, EvalItem(n, MaxGrade))) }
        \cup UNION { { WithItem(e, p, bad) : bad \in MisshapedItems(p) } : p \in 1..n }

\* replies to a request for the evaluation of n questions
EvalReplies(n) ==
    { Raised, BadJson }
    \cup { Json(e) : e \in ShapedEvaluations(n) \cup MisshapedEvaluations(n) }

\* the replies among them that the wizard is run with: the shaped ones, and
\* one that lacks 'overall_grade', one of the wrong length and one with a
\* wrong index
SomeEvalReplies(n) ==
    LET e == Evaluation(n, [i \in 1..n |-> MaxGrade], MaxGrade)
        items == e.v["evaluations"].v
    IN  { Raised, BadJson,
          Json(PyDict([evaluations |-> PyList(items),
                       overall_justification |-> Justification])),
          Json(WithItems(e, SubSeq(items, 1, n - 1))),
          Json(WithItem(e, n, EvalItem(n, MaxGrade))) }
        \cup { Json(x) : x \in ShapedEvaluations(n) }

\* the replies of the wizard by number of questions
WizardEvalReplies == [n \in 1..MaxQuestions |-> SomeEvalReplies(n)]

\* the replies to a request for questions that the wizard is run with
WizardQuestionReplies == QuestionReplies(MaxReplyLen)

\* the replies the Question Generator is exercised with on its own
AllQuestionReplies == QuestionReplies(MaxGenReplyLen)

\* the replies the Answer Evaluator is checked against, by number of questions
AllEvalReplies == [n \in 1..MaxQuestions |-> EvalReplies(n)]

\* ------------------------------------------------------------------------
\* State
\* ------------------------------------------------------------------------

VARIABLES
    \* st.session_state
    interview_phase,
    questions,
    answers,
    current_question_index,
    evaluation_results,
    num_questions_selected,
    questions_complexity,
    selected_option,
    custom_role_input,
    effective_role,
    \* a run of the script is due that no user interaction caused: the
    \* first run of the session, or the run st.rerun() asked for
    rerun,
    \* locals of the latest run of the script, Unset if that run did not
    \* assign them
    checked_role_name,
    all_answers_safe,
    \* the answers (Python indices) for which the latest run sent a safety
    \* check to the service
    safety_requests,
    \* what the latest run passed to evaluate_answers_openai, with is_safe
    \* of every answer as the safety loop of that run found it; Unset if the
    \* run did not call it
    evaluated,
    \* how often evaluate_answers_openai was invoked, and how often it sent a
    \* request to the service, since the latest run of phase setup
    eval_calls,
    eval_requests,
    \* whether the first run of this stay in phase finished found an answer
    \* unsafe (is_safe is False)
    unsafe_on_arrival,
    \* a call of one of the four functions on its own
    call

session ==
    << interview_phase, questions, answers, current_question_index,
       evaluation_results, num_questions_selected, questions_complexity,
       selected_option, custom_role_input, effective_role >>

locals == << checked_role_name, all_answers_safe, safety_requests, evaluated >>

counters == << eval_calls, eval_requests, unsafe_on_arrival >>

vars == << session, rerun, locals, counters, call >>

\* a local no run has assigned yet
Unset == [t |-> "unset"]

NoCall == [fn |-> "none"]

\* the session after the setdefault calls of the first run of the script
SessionDefaults ==
    /\ interview_phase = "setup"
    /\ questions = PyList(<<>>)
    /\ answers = <<>>
    /\ current_question_index = 0
    /\ evaluation_results = PyNone
    /\ num_questions_selected = DefaultNumQuestions
    /\ questions_complexity = "Medium"
    /\ selected_option = APP_DEVELOPER
    /\ custom_role_input = <<>>
    /\ effective_role = APP_DEVELOPER

Init ==
    /\ SessionDefaults
    /\ rerun = TRUE
    /\ checked_role_name = Unset
    /\ all_answers_safe = Unset
    /\ safety_requests = {}
    /\ evaluated = Unset
    /\ eval_calls = 0
    /\ eval_requests = 0
    /\ unsafe_on_arrival = FALSE
    /\ call = NoCall

\* ------------------------------------------------------------------------
\* Phase 1: setup
\* ------------------------------------------------------------------------

\* Button without the disabled state
ButtonNeverDisabled(clicked, disabled) == clicked

\* st.button(label, disabled=...): True in the run its click caused; a
\* disabled button cannot be clicked
Button(clicked, disabled) == clicked /\ ~disabled

\* effective_role_for_start: the validated role name, or ""
effective_role_for_start(checked) ==
    IF checked.t = "str" /\ checked.v # <<>> THEN checked.v ELSE <<>>

\* a run that does not reach phase finished assigns none of its locals
NoFinishedLocals ==
    /\ all_answers_safe' = Unset
    /\ safety_requests' = {}
    /\ evaluated' = Unset

\* One run of the script in phase setup.  num, option, complexity and
\* custom_text are the values of the widgets, role_reply and
\* questions_reply the service's replies, clicked whether the start button
\* was clicked.
SetupScript(num, option, complexity, custom_text, role_reply, clicked, questions_reply) ==
    LET custom_role ==
            IF option = OTHER_ROLE
            THEN Strip(MaxCharsOf(custom_text, RoleMaxChars))
            ELSE <<>>
        display_role ==
            IF option = OTHER_ROLE
            THEN (IF custom_role # <<>> THEN custom_role ELSE OTHER_ROLE)
            ELSE option
        checked ==
            IF display_role = OTHER_ROLE \/ display_role = <<>>
            THEN Unset
            ELSE check_role(display_role, role_reply).ret
        for_start == effective_role_for_start(checked)
        generated ==
            generate_questions_openai(num, complexity, for_start, questions_reply).ret
    IN  /\ num_questions_selected' = num
        /\ selected_option' = option
        /\ questions_complexity' = complexity
        /\ custom_role_input' = custom_role
        /\ effective_role' = display_role
        /\ checked_role_name' = checked
        /\ IF Button(clicked, for_start = <<>>)
           THEN /\ questions' = generated
                /\ IF Truthy(generated)
                   THEN /\ answers' = [i \in 1..Len(generated.v) |-> <<>>]
                        /\ current_question_index' = 0
                        /\ evaluation_results' = PyNone
                        /\ interview_phase' = "interviewing"
                        /\ rerun' = TRUE
                   ELSE /\ rerun' = FALSE
                        /\ UNCHANGED << answers, current_question_index,
                                        evaluation_results, interview_phase >>
           ELSE /\ rerun' = FALSE
                /\ UNCHANGED << questions, answers, current_question_index,
                                evaluation_results, interview_phase >>
        /\ NoFinishedLocals
        /\ eval_calls' = 0
        /\ eval_requests' = 0
        /\ unsafe_on_arrival' = FALSE
        /\ UNCHANGED call

\* the run of phase setup that no interaction caused: the widgets hold what
\* the session holds
SetupRerun ==
    \E role_reply \in RoleReplies :
        SetupScript(num_questions_selected, selected_option, questions_complexity,
                    custom_role_input, role_reply, FALSE, Raised)

\* the user changes the widgets of the setup page
Configure ==
    /\ interview_phase = "setup"
    /\ ~rerun
    /\ \E num \in SelectedCounts, option \in SelectedRoles,
          complexity \in SelectedComplexities, custom_text \in CustomRoleInputs,
          role_reply \in RoleReplies :
           SetupScript(num, option, complexity,
                       IF option = OTHER_ROLE THEN custom_text ELSE <<>>,
                       role_reply, FALSE, Raised)

\* the user clicks the start button, which the page shows enabled
StartInterview ==
    /\ interview_phase = "setup"
    /\ ~rerun
    /\ effective_role_for_start(checked_role_name) # <<>>
    /\ \E role_reply \in RoleReplies, questions_reply \in WizardQuestionReplies :
           SetupScript(num_questions_selected, selected_option, questions_complexity,
                          custom_role_input, role_reply, TRUE, questions_reply)

\* ------------------------------------------------------------------------
\* Phase 2: interviewing
\* ------------------------------------------------------------------------

\* total_questions one short
total_questions_short == IF questions.t = "list" THEN Len(questions.v) - 1 ELSE 0

\* len(st.session_state.questions)
total_questions == IF questions.t = "list" THEN Len(questions.v) ELSE 0

\* is_last_question one question late
is_last_question_late(q_index, total) == q_index = total

\* is_last_question = (q_index == total_questions - 1)
is_last_question(q_index, total) == q_index = total - 1

\* NextIndex that stays at the question
NextIndexStuck(q_index) == q_index

\* the index after "Submit & Next"
NextIndex(q_index) == q_index + 1

\* PreviousIndex going back two questions
PreviousIndexTwice(q_index) == q_index - 2

\* the index after "Previous"
PreviousIndex(q_index) == q_index - 1

\* One run of the script in phase interviewing.  text is the content of
\* the text area, button the button that was clicked ("none": no button).
InterviewScript(text, button) ==
    LET q_index == current_question_index
    IN  IF total_questions = 0 \/ q_index >= total_questions
        THEN \* Defensive check in case questions list is somehow empty
             /\ interview_phase' = "setup"
             /\ rerun' = TRUE
             /\ UNCHANGED << questions, answers, current_question_index,
                             evaluation_results, num_questions_selected,
                             questions_complexity, selected_option,
                             custom_role_input, effective_role >>
             /\ NoFinishedLocals
             /\ checked_role_name' = Unset
             /\ UNCHANGED << counters, call >>
        ELSE LET answer == MaxCharsOf(text, AnswerMaxChars)
             IN  /\ answers' = [answers EXCEPT ![q_index + 1] = answer]
                 /\ IF Button(button = "Previous", ~(q_index > 0))
                    THEN /\ current_question_index' = PreviousIndex(q_index)
                         /\ rerun' = TRUE
                         /\ UNCHANGED interview_phase
                    ELSE IF button = "Next"
                    THEN /\ IF is_last_question(q_index, total_questions)
                            THEN /\ interview_phase' = "finished"
                                 /\ UNCHANGED current_question_index
                            ELSE /\ current_question_index' = NextIndex(q_index)
                                 /\ UNCHANGED interview_phase
                         /\ rerun' = TRUE
                    ELSE IF button = "End Early"
                    THEN /\ interview_phase' = "finished"
                         /\ rerun' = TRUE
                         /\ UNCHANGED current_question_index
                    ELSE /\ rerun' = FALSE
                         /\ UNCHANGED << interview_phase, current_question_index >>
                 /\ UNCHANGED << questions, evaluation_results, num_questions_selected,
                                 questions_complexity, selected_option,
                                 custom_role_input, effective_role >>
                 /\ NoFinishedLocals
                 /\ checked_role_name' = Unset
                 /\ UNCHANGED << counters, call >>

\* the text area of a question just arrived at shows the stored answer
StoredAnswer ==
    IF current_question_index + 1 \in DOMAIN answers
    THEN answers[current_question_index + 1]
    ELSE <<>>

\* the text of the text area when a button is clicked: what the user has
\* just typed, or the stored answer left as it is
ClickInputs == AnswerInputs \cup { StoredAnswer }

\* the run of phase interviewing that no interaction caused
InterviewRerun == InterviewScript(StoredAnswer, "none")

\* the user edits the answer and leaves the text area
EditAnswer ==
    /\ interview_phase = "interviewing"
    /\ ~rerun
    /\ \E text \in EditInputs(current_question_index) : InterviewScript(text, "none")

\* the user clicks "Previous", shown when this is not the first question
Previous ==
    /\ interview_phase = "interviewing"
    /\ ~rerun
    /\ current_question_index > 0
    /\ \E text \in ClickInputs : InterviewScript(text, "Previous")

\* the user clicks "Submit & Next" or "Finish Interview & Evaluate"
SubmitNext ==
    /\ interview_phase = "interviewing"
    /\ ~rerun
    /\ \E text \in ClickInputs : InterviewScript(text, "Next")

\* the user clicks "End Early"
EndEarly ==
    /\ interview_phase = "interviewing"
    /\ ~rerun
    /\ \E text \in ClickInputs : InterviewScript(text, "End Early")

\* ------------------------------------------------------------------------
\* Phase 3: finished
\* ------------------------------------------------------------------------

\* the safety loop: what check_answer_safety did for every answer; an
\* answer that is empty after trimming is not passed to it
SafetyLoop(ans, replies) ==
    [i \in 1..Len(ans) |->
        IF IsBlank(ans[i]) THEN Outcome(Unset, FALSE, <<>>)
        ELSE check_answer_safety(ans[i], replies[i])]

\* is_safe of every answer after the safety loop
IsSafe(checks) == [i \in 1..Len(checks) |-> checks[i].ret]

\* FlaggedAnswers without the replacement
FlaggedAnswersKept(ans, verdicts) == ans

\* st.session_state.answers after the safety loop
FlaggedAnswers(ans, verdicts) ==
    [i \in 1..Len(ans) |->
        IF verdicts[i] = PyBool(FALSE) THEN FLAGGED ELSE ans[i]]

\* all_answers_safe after the safety loop
AllAnswersSafe(verdicts) ==
    \A i \in 1..Len(verdicts) : verdicts[i] \in { Unset, PyBool(TRUE) }

\* the evaluation is due in this run: `evaluation_results is None`
EvaluationDue(results) == results = PyNone

\* Reset relevant state variables to defaults for a fresh start
ResetSession ==
    /\ interview_phase' = "setup"
    /\ questions' = PyList(<<>>)
    /\ answers' = <<>>
    /\ current_question_index' = 0
    /\ evaluation_results' = PyNone
    /\ selected_option' = APP_DEVELOPER
    /\ custom_role_input' = <<>>
    /\ effective_role' = APP_DEVELOPER
    /\ num_questions_selected' = ResetNumQuestions
    /\ UNCHANGED questions_complexity

\* One run of the script in phase finished.  safety_replies[i] is the
\* service's reply to the safety check of answer i, eval_reply its reply to
\* the evaluation, clicked whether "Start New Interview" was clicked.
FinishedScript(safety_replies, eval_reply, clicked) ==
    \E checks \in { SafetyLoop(answers, safety_replies) } :
    \E verdicts \in { IsSafe(checks) } :
    \E flagged \in { FlaggedAnswers(answers, verdicts) } :
    \E invoked \in { EvaluationDue(evaluation_results) /\ AnyAnswered(flagged) } :
    \E out \in { IF invoked
                 THEN evaluate_answers_openai(questions, flagged, num_questions_selected,
                                              effective_role, eval_reply)
                 ELSE IF EvaluationDue(evaluation_results)
                 THEN Outcome(NotAnsweredEvaluation(total_questions), FALSE, <<"warning">>)
                 ELSE Outcome(evaluation_results, FALSE, <<>>) } :
        /\ all_answers_safe' = PyBool(AllAnswersSafe(verdicts))
        /\ safety_requests' = { i - 1 : i \in { j \in 1..Len(checks) : checks[j].called } }
        /\ evaluated' =
               IF invoked
               THEN [t |-> "call", questions |-> questions, answers |-> flagged,
                     is_safe |-> verdicts]
               ELSE Unset
        /\ eval_calls' = IF invoked THEN eval_calls + 1 ELSE eval_calls
        /\ eval_requests' =
               IF invoked /\ out.called THEN eval_requests + 1 ELSE eval_requests
        /\ unsafe_on_arrival' =
               IF all_answers_safe = Unset
               THEN \E i \in 1..Len(verdicts) : verdicts[i] = PyBool(FALSE)
               ELSE unsafe_on_arrival
        /\ checked_role_name' = Unset
        /\ UNCHANGED call
        /\ IF invoked /\ Truthy(out.ret)
           THEN \* Rerun to display results now that they exist
                /\ evaluation_results' = out.ret
                /\ answers' = flagged
                /\ rerun' = TRUE
                /\ UNCHANGED << interview_phase, questions, current_question_index,
                                num_questions_selected, questions_complexity,
                                selected_option, custom_role_input, effective_role >>
           ELSE IF clicked
           THEN /\ ResetSession
                /\ rerun' = TRUE
           ELSE /\ evaluation_results' = out.ret
                /\ answers' = flagged
                /\ rerun' = FALSE
                /\ UNCHANGED << interview_phase, questions, current_question_index,
                                num_questions_selected, questions_complexity,
                                selected_option, custom_role_input, effective_role >>

\* the answers the safety loop checks
Checked(ans) == { i \in 1..Len(ans) : ~IsBlank(ans[i]) }

\* A run of phase finished with the replies it can get: one per answer that
\* is checked, and one to the evaluation if the run requests it.
FinishedInputs(clicked) ==
    \E replies \in [Checked(answers) -> SafetyReplies] :
        LET safety_replies ==
                [i \in 1..Len(answers) |->
                    IF i \in DOMAIN replies THEN replies[i] ELSE Raised]
            flagged == FlaggedAnswers(answers, IsSafe(SafetyLoop(answers, safety_replies)))
            invoked == EvaluationDue(evaluation_results) /\ AnyAnswered(flagged)
        IN  /\ invoked => eval_calls < MaxEvalCalls
            /\ \E eval_reply \in
                   (IF invoked THEN WizardEvalReplies[total_questions] ELSE { Raised }) :
                   FinishedScript(safety_replies, eval_reply, clicked)

\* the run of phase finished that no interaction caused
FinishedRerun == FinishedInputs(FALSE)

\* the page is rendered again without a click
Render ==
    /\ interview_phase = "finished"
    /\ ~rerun
    /\ FinishedInputs(FALSE)

\* the user clicks "Start New Interview"
StartNewInterview ==
    /\ interview_phase = "finished"
    /\ ~rerun
    /\ FinishedInputs(TRUE)

\* ------------------------------------------------------------------------
\* The specification of the wizard
\* ------------------------------------------------------------------------

\* the run of the script the session is waiting for
Rerun ==
    /\ rerun
    /\ CASE interview_phase = "setup" -> SetupRerun
         [] interview_phase = "interviewing" -> InterviewRerun
         [] interview_phase = "finished" -> FinishedRerun

Next ==
    \/ Rerun
    \/ Configure
    \/ StartInterview
    \/ EditAnswer
    \/ Previous
    \/ SubmitNext
    \/ EndEarly
    \/ Render
    \/ StartNewInterview

Spec == Init /\ [][Next]_vars

\* The wizard with a run the session is waiting for (the first run, or the
\* one st.rerun() asked for) always taking place, and with a user who does
\* not leave the next / finish button unclicked forever.
SpecFair == Spec /\ WF_vars(Rerun) /\ WF_vars(SubmitNext)

\* ------------------------------------------------------------------------
\* The functions on their own: one call of a function with any arguments
\* and any reply of the service
\* ------------------------------------------------------------------------

GenerateCalls ==
    { [fn |-> "generate_questions_openai", num_questions |-> n,
       complexity_of_question |-> "Medium", role |-> GENERAL,
       reply |-> r, done |-> FALSE, out |-> Unset] :
         n \in QuestionOptions, r \in AllQuestionReplies }

InitCalls ==
    /\ SessionDefaults
    /\ rerun = TRUE
    /\ checked_role_name = Unset
    /\ all_answers_safe = Unset
    /\ safety_requests = {}
    /\ evaluated = Unset
    /\ eval_calls = 0
    /\ eval_requests = 0
    /\ unsafe_on_arrival = FALSE
    /\ call \in GenerateCalls

\* the call returns
CallGenerate ==
    /\ call.fn = "generate_questions_openai"
    /\ ~call.done
    /\ call' = [call EXCEPT
                  !.done = TRUE,
                  !.out = generate_questions_openai(call.num_questions,
                              call.complexity_of_question, call.role, call.reply)]
    /\ UNCHANGED << session, rerun, locals, counters >>

NextCalls == CallGenerate

SpecCalls == InitCalls /\ [][NextCalls]_vars

\* the roles check_role is called with: display_role, which is neither empty
\* nor "Other..."
CheckedRoles == { APP_DEVELOPER, GENERAL, <<"C","h","e","f">> }

\* replies to an answer safety check, some of them neither token
AllSafetyReplies ==
    SafetyReplies \cup { Text(<<>>), Text(<<"s","a","f","e"," ">>), Text(MAYBE) }

RoleCalls ==
    { [fn |-> "check_role", role_to_check |-> r, reply |-> x,
       done |-> FALSE, out |-> Unset] :
         r \in CheckedRoles, x \in RoleReplies }

SafetyCalls ==
    { [fn |-> "check_answer_safety", answer_text |-> a, reply |-> x,
       done |-> FALSE, out |-> Unset] :
         a \in AnswerInputs \cup { FLAGGED }, x \in AllSafetyReplies }

\* calls with one or two questions, an answer to each, and every reply to
\* a request for their evaluation
EvaluateCalls ==
    UNION { { [fn |-> "evaluate_answers_openai",
               questions |-> PyList([i \in 1..n |-> Question]), answers |-> a,
               num_questions |-> MinQuestions, role |-> GENERAL, reply |-> x,
               done |-> FALSE, out |-> Unset] :
                 a \in [1..n -> AnswerInputs], x \in AllEvalReplies[n] } :
            n \in 1..2 }

InitFunctions ==
    /\ SessionDefaults
    /\ rerun = TRUE
    /\ checked_role_name = Unset
    /\ all_answers_safe = Unset
    /\ safety_requests = {}
    /\ evaluated = Unset
    /\ eval_calls = 0
    /\ eval_requests = 0
    /\ unsafe_on_arrival = FALSE
    /\ \/ call \in RoleCalls
       \/ call \in GenerateCalls
       \/ call \in SafetyCalls
       \/ call \in EvaluateCalls

\* the call of check_role returns
CallRole ==
    /\ call.fn = "check_role"
    /\ ~call.done
    /\ call' = [call EXCEPT
                  !.done = TRUE,
                  !.out = check_role(call.role_to_check, call.reply)]
    /\ UNCHANGED << session, rerun, locals, counters >>

\* the call of check_answer_safety returns
CallSafety ==
    /\ call.fn = "check_answer_safety"
    /\ ~call.done
    /\ call' = [call EXCEPT
                  !.done = TRUE,
                  !.out = check_answer_safety(call.answer_text, call.reply)]
    /\ UNCHANGED << session, rerun, locals, counters >>

\* the call of evaluate_answers_openai returns
CallEvaluate ==
    /\ call.fn = "evaluate_answers_openai"
    /\ ~call.done
    /\ call' = [call EXCEPT
                  !.done = TRUE,
                  !.out = evaluate_answers_openai(call.questions, call.answers,
                              call.num_questions, call.role, call.reply)]
    /\ UNCHANGED << session, rerun, locals, counters >>

NextFunctions ==
    \/ CallRole
    \/ CallGenerate
    \/ CallSafety
    \/ CallEvaluate

SpecFunctions == InitFunctions /\ [][NextFunctions]_vars

\* ------------------------------------------------------------------------
\* Properties
\* ------------------------------------------------------------------------

\* C1: while the phase is interviewing, answers is as long as questions and
\* current_question_index is an index of questions, whatever Previous,
\* Submit & Next and edits of the answer came before.
C1_AnswersAlignedIndexInRange ==
    interview_phase = "interviewing" =>
        /\ questions.t = "list"
        /\ Len(answers) = Len(questions.v)
        /\ 0 <= current_question_index
        /\ current_question_index < Len(questions.v)

\* the second of three questions is shown again after the third was answered
C1_Witness ==
    /\ interview_phase = "interviewing"
    /\ ~rerun
    /\ questions.t = "list"
    /\ Len(questions.v) = 3
    /\ current_question_index = 1
    /\ Strip(answers[1]) # <<>>
    /\ Strip(answers[3]) # <<>>

\* C2: generate_questions_openai returns a list of exactly num_questions
\* strings or an empty list, for every count of 3..10 and every reply or
\* failure of the service.
C2_ExactlyRequestedOrEmpty ==
    (call.fn = "generate_questions_openai" /\ call.done) =>
        /\ call.out.ret.t = "list"
        /\ \/ call.out.ret.v = <<>>
           \/ /\ Len(call.out.ret.v) = call.num_questions
              /\ \A i \in 1..Len(call.out.ret.v) : call.out.ret.v[i].t = "str"

\* C3: the phase goes from setup to interviewing only in a run in which
\* check_role returned the role, not empty, and generate_questions_openai
\* returned a list that is not empty; after that run answers holds one
\* empty string per question, the index is 0 and evaluation_results is None.
C3_StartOnlyValidated ==
    [][(interview_phase = "setup" /\ interview_phase' = "interviewing") =>
          /\ checked_role_name'.t = "str"
          /\ checked_role_name'.v # <<>>
          /\ checked_role_name'.v = effective_role'
          /\ questions'.t = "list"
          /\ questions'.v # <<>>
          /\ answers' = [i \in 1..Len(questions'.v) |-> <<>>]
          /\ current_question_index' = 0
          /\ evaluation_results' = PyNone]_vars

\* the interview has just started on a reply of exactly three strings
C3_Witness ==
    /\ interview_phase = "interviewing"
    /\ rerun
    /\ checked_role_name.t = "str"
    /\ checked_role_name.v = effective_role
    /\ questions.t = "list"
    /\ Len(questions.v) = 3
    /\ answers = << <<>>, <<>>, <<>> >>
    /\ current_question_index = 0

\* C4: whenever evaluate_answers_openai is called, every answer for which
\* check_answer_safety returned False in that run holds the placeholder in
\* the list that is passed, and that list is the session's.
C4_UnsafeFlaggedBeforeEvaluation ==
    evaluated.t = "call" =>
        /\ \A i \in 1..Len(evaluated.answers) :
               evaluated.is_safe[i] = PyBool(FALSE) => evaluated.answers[i] = FLAGGED
        /\ interview_phase = "finished" => answers = evaluated.answers

\* the evaluator was called with an answer found unsafe and one found safe
C4_Witness ==
    /\ evaluated.t = "call"
    /\ \E i \in 1..Len(evaluated.answers) : evaluated.is_safe[i] = PyBool(FALSE)
    /\ \E i \in 1..Len(evaluated.answers) :
           evaluated.is_safe[i] = PyBool(TRUE) /\ evaluated.answers[i] # FLAGGED

\* C5: whenever evaluate_answers_openai is called, every answer for which
\* check_answer_safety returned None in that run holds the placeholder in
\* the list that is passed.
C5_ErroredFlaggedBeforeEvaluation ==
    evaluated.t = "call" =>
        \A i \in 1..Len(evaluated.answers) :
            evaluated.is_safe[i] = PyNone => evaluated.answers[i] = FLAGGED

\* C6: evaluate_answers_openai is called at most once between the arrival
\* in phase finished and the next reset, however often the page is run.
C6_EvaluatedAtMostOnce == eval_calls <= 1

\* C7: the run that takes the phase from finished to setup leaves the
\* session as the first run of the script found it.
C7_ResetRestoresDefaults ==
    [][(interview_phase = "finished" /\ interview_phase' = "setup") =>
          SessionDefaults']_vars

\* a result with an item per question, each with the index of its position,
\* an overall grade and an overall justification
C8_Complete(result, n) ==
    /\ result.t = "dict"
    /\ { "evaluations", "overall_grade", "overall_justification" } \subseteq DOMAIN result.v
    /\ result.v["evaluations"].t = "list"
    /\ Len(result.v["evaluations"].v) = n
    /\ \A i \in 1..n :
           /\ result.v["evaluations"].v[i].t = "dict"
           /\ "question_index" \in DOMAIN result.v["evaluations"].v[i].v
           /\ result.v["evaluations"].v[i].v["question_index"] = PyInt(i - 1)

\* C8: evaluation_results is None or a complete result for the questions
\* of the session, and evaluate_answers_openai returns None or a complete
\* result for every reply of the service.
C8_EvaluationCompleteOrNone ==
    /\ evaluation_results = PyNone \/ C8_Complete(evaluation_results, total_questions)
    /\ (interview_phase = "finished" /\ ~rerun) =>
           \A reply \in AllEvalReplies[total_questions] :
               LET out == evaluate_answers_openai(questions, answers,
                              num_questions_selected, effective_role, reply)
               IN  out.ret = PyNone \/ C8_Complete(out.ret, total_questions)

\* the session holds a result the service sent for three questions
C8_Witness ==
    /\ interview_phase = "finished"
    /\ eval_requests > 0
    /\ total_questions = 3
    /\ evaluation_results # PyNone

\* C9: every grade of a question in the evaluation the session holds is
\* in 1..10.
C9_GradesInRange ==
    evaluation_results # PyNone =>
        \A i \in 1..Len(evaluation_results.v["evaluations"].v) :
            evaluation_results.v["evaluations"].v[i].v["grade"].v \in MinGrade..MaxGrade

\* every answer is empty once trimmed
C10_NothingAnswered == \A i \in 1..Len(answers) : Strip(answers[i]) = <<>>

\* the evaluation of an interview without answers
C10_Expected(result, n) ==
    /\ result.t = "dict"
    /\ result.v["overall_grade"] = PyInt(1)
    /\ Len(result.v["evaluations"].v) = n
    /\ \A i \in 1..n :
           /\ result.v["evaluations"].v[i].v["question_index"] = PyInt(i - 1)
           /\ result.v["evaluations"].v[i].v["grade"] = PyInt(1)
           /\ result.v["evaluations"].v[i].v["justification"] = PyStr(NOT_ANSWERED)

\* C10: once the page of an interview without answers has been run, the
\* session holds the evaluation with grade 1 overall and index i, grade 1
\* and 'Not answered' for every question i, and no request for an
\* evaluation was sent; evaluate_answers_openai returns that evaluation for
\* these answers without a request, whatever the service would reply.
C10_UnansweredGradedWithoutRequest ==
    (interview_phase = "finished" /\ ~rerun /\ C10_NothingAnswered) =>
        /\ C10_Expected(evaluation_results, total_questions)
        /\ eval_requests = 0
        /\ \A reply \in AllEvalReplies[total_questions] :
               LET out == evaluate_answers_openai(questions, answers,
                              num_questions_selected, effective_role, reply)
               IN  C10_Expected(out.ret, total_questions) /\ ~out.called

\* the page of an interview of three questions was run, one answer being
\* blanks only
C10_Witness ==
    /\ interview_phase = "finished"
    /\ ~rerun
    /\ C10_NothingAnswered
    /\ total_questions = 3
    /\ \E i \in 1..Len(answers) : answers[i] # <<>>
    /\ evaluation_results # PyNone

\* C11: a run of phase finished sends a safety check only for answers that
\* are not empty once trimmed, and check_answer_safety returns True for
\* every answer that is empty once trimmed without a request, whatever the
\* service would reply.
C11_BlankAnswersNeverSent ==
    [][interview_phase = "finished" =>
          /\ \A i \in safety_requests' : Strip(answers[i + 1]) # <<>>
          /\ \A i \in 1..Len(answers) :
                 Strip(answers[i]) = <<>> =>
                     \A reply \in SafetyReplies :
                         LET out == check_answer_safety(answers[i], reply)
                         IN  out.ret = PyBool(TRUE) /\ ~out.called]_vars

\* of the answers "", "x" and " " only the second was sent to the service
C11_Witness ==
    /\ interview_phase = "finished"
    /\ Len(answers) = 3
    /\ answers[1] = <<>>
    /\ answers[3] = <<" ">>
    /\ safety_requests = {1}

\* the replies to a role check that are the accept token, and the reject
\* token, once trimmed and in upper case
C12_Accepts == { Text(VALID), Text(<<" ","v","a","l","i","d","\n">>) }
C12_Rejects == { Text(INVALID) }

\* C12: check_role returns the role it was given when the reply is the
\* accept token, the empty string when it is the reject token, and None,
\* which is neither, when the service fails or the reply is neither token;
\* the start button is enabled after the first outcome only.
C12_ThreeOutcomes ==
    (call.fn = "check_role" /\ call.done) =>
        /\ call.reply \in C12_Accepts => call.out.ret = PyStr(call.role_to_check)
        /\ call.reply \in C12_Rejects => call.out.ret = PyStr(<<>>)
        /\ call.reply \notin C12_Accepts \cup C12_Rejects => call.out.ret = PyNone
        /\ Button(TRUE, effective_role_for_start(call.out.ret) = <<>>)
               <=> call.reply \in C12_Accepts

\* the role "Chef" was accepted on a reply in lower case between blanks
C12_Witness ==
    /\ call.fn = "check_role"
    /\ call.done
    /\ call.reply = Text(<<" ","v","a","l","i","d","\n">>)
    /\ call.role_to_check = <<"C","h","e","f">>
    /\ call.out.ret = PyStr(<<"C","h","e","f">>)

\* the replies to a safety check that are the token SAFE, and the token
\* UNSAFE, once trimmed and in upper case
C13_SafeReplies == { Text(SAFE), Text(<<"s","a","f","e"," ">>) }
C13_UnsafeReplies == { Text(UNSAFE) }

\* the reply is text, not empty, that is neither token
C13_Unclear ==
    /\ call.reply.kind = "text"
    /\ call.reply.content # <<>>
    /\ call.reply \notin C13_SafeReplies \cup C13_UnsafeReplies

\* C13 as the specification states it: check_answer_safety returns None, as
\* it does when the service fails, when the reply to its request is text
\* that is neither token.
C13_UnclearReplyIsError ==
    (call.fn = "check_answer_safety" /\ call.done /\ call.out.called /\ C13_Unclear) =>
        call.out.ret = PyNone

\* C13: when the reply to its request is text that is neither token,
\* check_answer_safety returns False, the verdict of an unsafe answer, and
\* shows a warning; it returns None only when the service fails or the
\* reply has no content, True on the token SAFE, and False without a
\* warning on the token UNSAFE.
C13_UnclearReplyIsUnsafe ==
    (call.fn = "check_answer_safety" /\ call.done /\ call.out.called) =>
        /\ C13_Unclear =>
               call.out.ret = PyBool(FALSE) /\ call.out.ui = <<"warning">>
        /\ call.reply \in C13_SafeReplies => call.out.ret = PyBool(TRUE)
        /\ call.reply \in C13_UnsafeReplies =>
               call.out.ret = PyBool(FALSE) /\ call.out.ui = <<>>
        /\ call.reply \in { Raised, Text(<<>>) } => call.out.ret = PyNone

\* the safety check of the answer "x" was answered with MAYBE
C13_Witness ==
    /\ call.fn = "check_answer_safety"
    /\ call.done
    /\ call.answer_text = <<"x">>
    /\ call.reply = Text(MAYBE)
    /\ call.out.ret = PyBool(FALSE)

\* C14: when the service fails, each of the four functions returns a value
\* that is None or an empty list and shows a message in the page.
C14_FailureHandledAtCallSite ==
    (call.fn # "none" /\ call.done /\ call.out.called /\ call.reply = Raised) =>
        /\ call.out.ret \in { PyNone, PyList(<<>>) }
        /\ call.out.ui # <<>>

\* C15: in phase interviewing the index stays an index of questions;
\* Previous is offered only above index 0 and takes the index down by one;
\* Submit & Next before the last question takes it up by one and keeps the
\* phase; the phase becomes finished only by the click on the last
\* question's finish button or on End Early, and End Early is offered at
\* every index.
C15_NavigationInBounds ==
    [][interview_phase = "interviewing" =>
          /\ (ENABLED Previous) <=> (~rerun /\ current_question_index > 0)
          /\ Previous =>
                 /\ current_question_index' = current_question_index - 1
                 /\ interview_phase' = "interviewing"
          /\ (SubmitNext /\ current_question_index < Len(questions.v) - 1) =>
                 /\ current_question_index' = current_question_index + 1
                 /\ interview_phase' = "interviewing"
          /\ interview_phase' = "finished" =>
                 \/ SubmitNext /\ current_question_index = Len(questions.v) - 1
                 \/ EndEarly
          /\ ~rerun => ENABLED EndEarly
          /\ interview_phase' = "interviewing" =>
                 /\ 0 <= current_question_index'
                 /\ current_question_index' < Len(questions'.v)]_vars

\* Previous was clicked twice, from the third question back to the first
C15_Witness ==
    /\ interview_phase = "interviewing"
    /\ rerun
    /\ Len(answers) = 3
    /\ current_question_index = 0
    /\ answers[2] = <<"x">>

\* C16: a run of phase interviewing in which the user only edited the
\* answer stores the text of the text area, cut to 1000 characters, in
\* answers[current_question_index] and changes nothing else of the
\* session; no run of the phase changes another slot of answers, and the
\* run that arrives at a question leaves answers as it is.
C16_EditWritesCurrentSlotOnly ==
    [][interview_phase = "interviewing" =>
          /\ EditAnswer =>
                 /\ \E text \in EditInputs(current_question_index) :
                        answers'[current_question_index + 1] =
                            IF Len(text) <= AnswerMaxChars THEN text
                            ELSE SubSeq(text, 1, AnswerMaxChars)
                 /\ Len(answers'[current_question_index + 1]) <= AnswerMaxChars
                 /\ UNCHANGED << interview_phase, questions, current_question_index,
                                 evaluation_results, num_questions_selected,
                                 questions_complexity, selected_option,
                                 custom_role_input, effective_role >>
          /\ Len(answers') = Len(answers)
          /\ \A j \in 1..Len(answers) :
                 j # current_question_index + 1 => answers'[j] = answers[j]
          /\ rerun => answers' = answers]_vars

\* the third question is shown while the first still holds the 1000
\* characters it was cut to and the second its answer
C16_Witness ==
    /\ interview_phase = "interviewing"
    /\ ~rerun
    /\ Len(answers) = 3
    /\ current_question_index = 2
    /\ Len(answers[1]) = AnswerMaxChars
    /\ answers[2] = <<"x">>

\* C17: if the first run of phase finished found an answer unsafe, every
\* run of the phase until the reset, the one that shows the evaluation
\* included, ends with all_answers_safe False and so shows the notice of
\* unsafe content.
C17_UnsafeMarkedUntilReset ==
    (interview_phase = "finished" /\ unsafe_on_arrival) =>
        all_answers_safe = PyBool(FALSE)

\* C18: a run of the script leaves the phase as it is or takes it from
\* setup to interviewing, from interviewing to finished or from finished to
\* setup; and in phase interviewing the condition of the defensive check
\* (no questions, or an index past the last question) is false.
C18_PhaseOrder ==
    [][/\ << interview_phase, interview_phase' >> \in
              { << "setup", "setup" >>, << "setup", "interviewing" >>,
                << "interviewing", "interviewing" >>, << "interviewing", "finished" >>,
                << "finished", "finished" >>, << "finished", "setup" >> }
       /\ interview_phase = "interviewing" =>
              /\ questions.t = "list"
              /\ Len(questions.v) # 0
              /\ current_question_index < Len(questions.v)]_vars

\* the phase is setup again after an interview whose page was run
C18_Witness ==
    /\ interview_phase = "setup"
    /\ rerun
    /\ all_answers_safe # Unset
    /\ questions = PyList(<<>>)

\* the clicks on the next / finish button that are left: n - i
C19_ClicksLeft == Len(questions.v) - current_question_index

\* a click on the next / finish button takes one off the clicks that are
\* left, and the last of them takes the phase to finished; runs without a
\* click on a button leave the phase and the clicks that are left
C19_EachClickCounts ==
    [][interview_phase = "interviewing" =>
          /\ SubmitNext =>
                 IF C19_ClicksLeft = 1
                 THEN interview_phase' = "finished"
                 ELSE /\ interview_phase' = "interviewing"
                      /\ C19_ClicksLeft' = C19_ClicksLeft - 1
          /\ ~(SubmitNext \/ Previous \/ EndEarly) =>
                 /\ interview_phase' = "interviewing"
                 /\ C19_ClicksLeft' = C19_ClicksLeft]_vars

\* C19 as the specification states it: clicking the next / finish button
\* again and again from index i of n questions takes the phase to finished
\* with click n - i, and with a fair next / finish button the phase does
\* not stay interviewing forever.
C19_FinishesUnderFairness ==
    /\ C19_EachClickCounts
    /\ (interview_phase = "interviewing") ~> (interview_phase = "finished")

\* C19: clicking the next / finish button again and again from index i of
\* n questions takes the phase to finished with click n - i, and with a
\* fair next / finish button the phase does not stay interviewing forever
\* unless Previous is clicked again and again forever.
C19_FinishesUnlessPreviousForever ==
    /\ C19_EachClickCounts
    /\ \/ []<><<Previous>>_vars
       \/ (interview_phase = "interviewing") ~> (interview_phase = "finished")

\* the page of an interview of three questions is due after a click at
\* the last question
C19_Witness ==
    /\ interview_phase = "finished"
    /\ rerun
    /\ all_answers_safe = Unset
    /\ Len(questions.v) = 3
    /\ current_question_index = 2
    /\ \A i \in 1..3 : answers[i] = <<"x">>

\* C20: when the start button is clicked while enabled and
\* generate_questions_openai returns no questions (an empty list, or None
\* after a failure of the service), the run leaves the phase setup and
\* answers, the index and evaluation_results as they are, and the page it
\* ends with offers the start button again.
C20_FailedStartKeepsSetup ==
    [][(/\ StartInterview
        /\ effective_role_for_start(checked_role_name') # <<>>
        /\ questions' \in { PyNone, PyList(<<>>) }) =>
          /\ interview_phase' = "setup"
          /\ UNCHANGED << answers, current_question_index, evaluation_results >>
          /\ (ENABLED StartInterview)']_vars

\* the start button is offered again after the service failed to generate
\* questions
C20_Witness ==
    /\ interview_phase = "setup"
    /\ ~rerun
    /\ questions = PyNone
    /\ effective_role_for_start(checked_role_name) # <<>>
    /\ ENABLED StartInterview

====
